---- MODULE Spec2Model ----
(***************************************************************************)
(* LEWIS: command authorization (security/security_manager.py), strategy   *)
(* dispatch (execution/command_executor.py), tool processes                *)
(* (tools/tool_manager.py), the orchestrator (core/lewis_core.py) and the  *)
(* command-line entry point (lewis-cli.py).                                *)
(*                                                                         *)
(* Python strings are sequences of one-character strings, so that          *)
(* lower(), substring tests, re.search and ipaddress parsing are computed  *)
(* on the characters as the code computes them.                            *)
(***************************************************************************)
EXTENDS Integers, Sequences, FiniteSets, TLC

(***************************************************************************)
(* Bounds of the model.                                                    *)
(***************************************************************************)
\* Seconds of wall-clock time one Tick adds to a running tool process.
TickSeconds == 150
\* Number of Ticks the model lets a tool process stay running.
MaxTicks == 3
\* Seconds one Elapse adds to the clock the sessions are stamped with.
ClockSeconds == 1800
\* Number of Elapse steps of the model.
MaxClockTicks == 3
\* Number of output file names the model generates.
MaxFiles == 2

(***************************************************************************)
(* str helpers                                                             *)
(***************************************************************************)
UpperLetters == <<"A", "B", "C", "D", "E", "F", "G", "H", "I", "J", "K", "L", "M", "N", "O", "P", "Q", "R", "S", "T", "U", "V", "W", "X", "Y", "Z">>
LowerLetters == <<"a", "b", "c", "d", "e", "f", "g", "h", "i", "j", "k", "l", "m", "n", "o", "p", "q", "r", "s", "t", "u", "v", "w", "x", "y", "z">>
Digits == <<"0", "1", "2", "3", "4", "5", "6", "7", "8", "9">>

\* str.lower() on one character (ASCII letters).
LowerChar(c) ==
    IF \E i \in 1..Len(UpperLetters) : UpperLetters[i] = c
    THEN LowerLetters[CHOOSE i \in 1..Len(UpperLetters) : UpperLetters[i] = c]
    ELSE c

\* str.lower()
Lower(s) == [i \in 1..Len(s) |-> LowerChar(s[i])]

\* Python's `sub in s`
Contains(s, sub) ==
    \E i \in 0..(Len(s) - Len(sub)) : SubSeq(s, i + 1, i + Len(sub)) = sub

\* str.startswith
StartsWith(s, prefix) ==
    Len(s) >= Len(prefix) /\ SubSeq(s, 1, Len(prefix)) = prefix

\* The characters \s matches, among those the modelled texts use.
Whitespace == {" ", "\t", "\n"}

(***************************************************************************)
(* re.search(pattern, text, re.IGNORECASE) for the pattern elements the    *)
(* rule tables use: a literal character, \s*, \s+ and .*                   *)
(***************************************************************************)
Lit(c) == [t |-> "lit", c |-> c]
Ws0 == [t |-> "ws0", c |-> ""]
Ws1 == [t |-> "ws1", c |-> ""]
Any0 == [t |-> "any0", c |-> ""]
\* $ : the end of the text
End == [t |-> "end", c |-> ""]
Lits(s) == [i \in 1..Len(s) |-> Lit(s[i])]

RECURSIVE MatchHere(_, _, _, _)
MatchHere(pat, pi, s, si) ==
    IF pi > Len(pat) THEN TRUE
    ELSE LET p == pat[pi]
             rest == Len(s) - si + 1
         IN  CASE p.t = "lit" ->
                    /\ si <= Len(s)
                    /\ LowerChar(s[si]) = LowerChar(p.c)
                    /\ MatchHere(pat, pi + 1, s, si + 1)
               [] p.t = "ws0" ->
                    \E k \in 0..rest :
                        /\ \A j \in si..(si + k - 1) : s[j] \in Whitespace
                        /\ MatchHere(pat, pi + 1, s, si + k)
               [] p.t = "ws1" ->
                    \E k \in 1..rest :
                        /\ \A j \in si..(si + k - 1) : s[j] \in Whitespace
                        /\ MatchHere(pat, pi + 1, s, si + k)
               [] p.t = "end" ->
                    /\ si = Len(s) + 1 \/ (si = Len(s) /\ s[si] = "\n")
                    /\ MatchHere(pat, pi + 1, s, si)
               [] p.t = "any0" ->
                    \E k \in 0..rest :
                        /\ \A j \in si..(si + k - 1) : s[j] /= "\n"
                        /\ MatchHere(pat, pi + 1, s, si + k)

ReSearch(pat, s) == \E i \in 1..(Len(s) + 1) : MatchHere(pat, 1, s, i)

(***************************************************************************)
(* SecurityManager._initialize_security_policies                           *)
(***************************************************************************)
\* dict order of self.dangerous_commands
DangerousCategories ==
    <<"exploitation", "privilege_escalation", "system_modification", "network_attacks">>

dangerous_commands(category) ==
    CASE category = "exploitation" ->
            << <<"m", "e", "t", "a", "s", "p", "l", "o", "i", "t">>, <<"m", "s", "f", "c", "o", "n", "s", "o", "l", "e">>, <<"e", "x", "p", "l", "o", "i", "t">> >>
      [] category = "privilege_escalation" ->
            << <<"s", "u", "d", "o">>, <<"s", "u">>, <<"s", "e", "t", "u", "i", "d">> >>
      [] category = "system_modification" ->
            << <<"r", "m">>, <<"d", "e", "l">>, <<"f", "o", "r", "m", "a", "t">>, <<"m", "k", "f", "s">> >>
      [] category = "network_attacks" ->
            << <<"d", "d", "o", "s">>, <<"d", "o", "s">>, <<"f", "l", "o", "o", "d">> >>

restricted_paths ==
    << <<"/", "e", "t", "c", "/", "p", "a", "s", "s", "w", "d">>, <<"/", "e", "t", "c", "/", "s", "h", "a", "d", "o", "w">>, <<"/", "e", "t", "c", "/", "h", "o", "s", "t", "s">>,
       <<"C", ":", "\\", "W", "i", "n", "d", "o", "w", "s", "\\", "S", "y", "s", "t", "e", "m", "3", "2">>, <<"C", ":", "\\", "U", "s", "e", "r", "s", "\\", "A", "d", "m", "i", "n", "i", "s", "t", "r", "a", "t", "o", "r">> >>

\* An IPv4 network is its address octets and prefix length; the two IPv6
\* networks of the list never contain an IPv4 address.
blocked_targets ==
    << [version |-> 4, addr |-> <<127, 0, 0, 0>>, prefix |-> 8],
       [version |-> 4, addr |-> <<10, 0, 0, 0>>, prefix |-> 8],
       [version |-> 4, addr |-> <<172, 16, 0, 0>>, prefix |-> 12],
       [version |-> 4, addr |-> <<192, 168, 0, 0>>, prefix |-> 16],
       [version |-> 4, addr |-> <<169, 254, 0, 0>>, prefix |-> 16],
       [version |-> 6, addr |-> <<0, 0, 0, 1>>, prefix |-> 128],
       [version |-> 6, addr |-> <<64512, 0, 0, 0>>, prefix |-> 7] >>

admin_users == {"admin", "pentest_lead"}

\* _is_user_authorized_for_category
_is_user_authorized_for_category(user_id, category) ==
    IF category = "exploitation" THEN user_id \in admin_users ELSE TRUE

malicious_patterns ==
    << <<Lit(";"), Ws0>> \o Lits(<<"r", "m">>) \o <<Ws1>> \o Lits(<<"-", "r", "f">>) \o <<Ws1, Lit("/")>>,
       <<Lit(">"), Ws0>> \o Lits(<<"/", "d", "e", "v", "/", "n", "u", "l", "l">>) \o <<Ws0>> \o Lits(<<"2", ">", "&", "1">>),
       <<Lit("|"), Ws0>> \o Lits(<<"n", "c">>) \o <<Ws1>>,
       Lits(<<"c", "u", "r", "l">>) \o <<Ws1, Any0, Lit("|"), Ws0>> \o Lits(<<"s", "h">>),
       Lits(<<"w", "g", "e", "t">>) \o <<Ws1, Any0, Lit("|"), Ws0>> \o Lits(<<"s", "h">>) >>

\* _contains_malicious_patterns
_contains_malicious_patterns(command) ==
    \E i \in 1..Len(malicious_patterns) : ReSearch(malicious_patterns[i], command)

safe_target_patterns ==
    << <<Any0>> \o Lits(<<".", "t", "e", "s", "t", "f", "i", "r", "e", ".", "n", "e", "t">>) \o <<End>>,
       <<Any0>> \o Lits(<<".", "d", "v", "w", "a", ".">>) \o <<Any0, End>>,
       <<Any0>> \o Lits(<<".", "h", "a", "c", "k", "t", "h", "e", "b", "o", "x", ".">>) \o <<Any0, End>>,
       <<Any0>> \o Lits(<<".", "v", "u", "l", "n", "h", "u", "b", ".">>) \o <<Any0, End>> >>

(***************************************************************************)
(* SecurityManager.is_command_allowed                                      *)
(***************************************************************************)
\* The keywords of `category` found in the lower-cased command.
KeywordHit(command, category) ==
    \E k \in 1..Len(dangerous_commands(category)) :
        Contains(Lower(command), dangerous_commands(category)[k])

\* First loop: a keyword of a category the user is not authorized for.
DangerousCommandBlocked(command, user_id) ==
    \E c \in 1..Len(DangerousCategories) :
        /\ KeywordHit(command, DangerousCategories[c])
        /\ ~_is_user_authorized_for_category(user_id, DangerousCategories[c])

\* Second loop: a restricted path, lower-cased, in the lower-cased command.
RestrictedPathHit(command) ==
    \E p \in 1..Len(restricted_paths) :
        Contains(Lower(command), Lower(restricted_paths[p]))

\* The checks is_command_allowed evaluates, in the order of its statements,
\* up to and including the one that returns False.
CommandChecks(command, user_id) ==
    IF DangerousCommandBlocked(command, user_id) THEN <<"dangerous_commands">>
    ELSE IF RestrictedPathHit(command)
         THEN <<"dangerous_commands", "restricted_paths">>
         ELSE <<"dangerous_commands", "restricted_paths", "malicious_patterns">>

\* The checks in the order malicious pattern, restricted path, category.
CommandWarningMaliciousFirst(command, user_id) ==
    IF _contains_malicious_patterns(command) THEN "malicious_pattern"
    ELSE IF RestrictedPathHit(command) THEN "restricted_path"
    ELSE IF DangerousCommandBlocked(command, user_id) THEN "command_blocked"
    ELSE "none"

\* The logger.warning is_command_allowed emits before it returns False
\* ("none" when it returns True: that path logs nothing).
CommandWarning(command, user_id) ==
    IF DangerousCommandBlocked(command, user_id) THEN "command_blocked"
    ELSE IF RestrictedPathHit(command) THEN "restricted_path"
    ELSE IF _contains_malicious_patterns(command) THEN "malicious_pattern"
    ELSE "none"

\* An is_command_allowed that lets the admin users through unchecked.
is_command_allowed_admin_bypass(command, user_id) ==
    user_id \in admin_users \/ CommandWarning(command, user_id) = "none"

is_command_allowed(command, user_id) == CommandWarning(command, user_id) = "none"

(***************************************************************************)
(* ipaddress.ip_address and SecurityManager._is_target_blocked             *)
(***************************************************************************)
DigitValue(c) == (CHOOSE i \in 1..Len(Digits) : Digits[i] = c) - 1
IsDigit(c) == \E i \in 1..Len(Digits) : Digits[i] = c

CountChar(s, c) == Cardinality({i \in 1..Len(s) : s[i] = c})

\* str.split(sep) for a one-character separator
RECURSIVE Split(_, _)
Split(s, sep) ==
    IF \A i \in 1..Len(s) : s[i] /= sep THEN <<s>>
    ELSE LET i == CHOOSE j \in 1..Len(s) :
                      s[j] = sep /\ \A k \in 1..(j - 1) : s[k] /= sep
         IN  <<SubSeq(s, 1, i - 1)>> \o Split(SubSeq(s, i + 1, Len(s)), sep)

RECURSIVE DecimalValue(_)
DecimalValue(s) ==
    IF Len(s) = 0 THEN 0
    ELSE 10 * DecimalValue(SubSeq(s, 1, Len(s) - 1)) + DigitValue(s[Len(s)])

\* IPv4Address._parse_octet accepts 1 to 3 decimal digits, no leading zero
\* on a longer octet, value at most 255.
OctetOk(o) ==
    /\ Len(o) \in 1..3
    /\ \A i \in 1..Len(o) : IsDigit(o[i])
    /\ (Len(o) > 1 => o[1] /= "0")
    /\ DecimalValue(o) <= 255

IPv4Ok(s) ==
    /\ CountChar(s, "/") = 0
    /\ Len(Split(s, ".")) = 4
    /\ \A i \in 1..4 : OctetOk(Split(s, ".")[i])

\* IPv6Address needs at least three ':'-separated parts; the targets of the
\* model hold at most one ':', so IPv6 parsing always fails on them (a text
\* with two or more ':' has no arm here).
IPv6Ok(s) == CASE CountChar(s, ":") < 2 -> FALSE

\* ipaddress.ip_address: the address, or ValueError raised.
ip_address(s) ==
    IF IPv4Ok(s)
    THEN [exc |-> "none", version |-> 4,
          octets |-> [i \in 1..4 |-> DecimalValue(Split(s, ".")[i])]]
    ELSE IF IPv6Ok(s)
         THEN [exc |-> "none", version |-> 6, octets |-> <<>>]
         ELSE [exc |-> "ValueError", version |-> 0, octets |-> <<>>]

RECURSIVE Pow2(_)
Pow2(n) == IF n = 0 THEN 1 ELSE 2 * Pow2(n - 1)

\* Bits of the prefix that fall in octet i (0..8).
PrefixBits(prefix, i) ==
    LET b == prefix - 8 * (i - 1)
    IN  IF b < 0 THEN 0 ELSE IF b > 8 THEN 8 ELSE b

\* `ip in ip_network(net)`: same version and same leading prefix bits.
InNetwork(ip, net) ==
    /\ ip.version = net.version
    /\ ip.version = 4
    /\ \A i \in 1..4 :
          ip.octets[i] \div Pow2(8 - PrefixBits(net.prefix, i))
            = net.addr[i] \div Pow2(8 - PrefixBits(net.prefix, i))

\* Python's exception classes: ValueError is the base class of
\* ipaddress.AddressValueError.
IsInstance(exc, cls) ==
    \/ exc = cls
    \/ (exc = "AddressValueError" /\ cls = "ValueError")
    \/ (exc /= "none" /\ cls = "Exception")

blocked_domains == { <<"l", "o", "c", "a", "l", "h", "o", "s", "t">>, <<"1", "2", "7", ".", "0", ".", "0", ".", "1">>, <<"0", ".", "0", ".", "0", ".", "0">> }

\* _is_target_blocked: "True", "False", or the exception that leaves it.
_is_target_blocked(target) ==
    LET ip == ip_address(target)
    IN  IF ip.exc = "none"
        THEN IF \E n \in 1..Len(blocked_targets) : InNetwork(ip, blocked_targets[n])
             THEN "True" ELSE "False"
        ELSE IF IsInstance(ip.exc, "AddressValueError")
             THEN IF Lower(target) \in blocked_domains THEN "True" ELSE "False"
             ELSE ip.exc

(***************************************************************************)
(* Inputs of the model: command texts and targets.                         *)
(***************************************************************************)
CmdNmap == <<"n", "m", "a", "p", " ", "e", "x", "a", "m", "p", "l", "e", ".", "c", "o", "m">>
CmdRmRoot == <<"r", "m", " ", "-", "r", "f", " ", "/">>
CmdChainedDelete == <<"l", "s", ";", " ", "r", "m", " ", "-", "r", "f", " ", "/", "e", "t", "c", "/", "p", "a", "s", "s", "w", "d">>
CmdCatPasswd == <<"c", "a", "t", " ", "/", "e", "t", "c", "/", "p", "a", "s", "s", "w", "d">>
CmdUpperShadow == <<"C", "A", "T", " ", "/", "E", "T", "C", "/", "S", "H", "A", "D", "O", "W">>
CmdExploit == <<"r", "u", "n", " ", "e", "x", "p", "l", "o", "i", "t">>
CmdExploitPasswd == <<"e", "x", "p", "l", "o", "i", "t", " ", "/", "e", "t", "c", "/", "p", "a", "s", "s", "w", "d">>
CmdExploitDelete == <<"e", "x", "p", "l", "o", "i", "t", ";", " ", "r", "m", " ", "-", "r", "f", " ", "/">>
CmdCurlPipe == <<"c", "u", "r", "l", " ", "h", "t", "t", "p", ":", "/", "/", "x", " ", "|", " ", "s", "h">>
CmdNetcat == <<"s", "c", "a", "n", " ", "1", "0", ".", "0", ".", "0", ".", "1", " ", "|", " ", "N", "C", " ", "-", "e">>
CmdNikto == <<"n", "i", "k", "t", "o", " ", "c", "h", "e", "c", "k">>
CmdResults == <<"s", "c", "a", "n", " ", "r", "e", "s", "u", "l", "t", "s">>
TgtExample == <<"e", "x", "a", "m", "p", "l", "e", ".", "c", "o", "m">>
TgtLoopback == <<"1", "2", "7", ".", "0", ".", "0", ".", "1">>
TgtPrivate == <<"1", "9", "2", ".", "1", "6", "8", ".", "1", ".", "5">>
TgtTenNet == <<"1", "0", ".", "0", ".", "0", ".", "1">>
TgtPublic == <<"2", "0", "3", ".", "0", ".", "1", "1", "3", ".", "5">>
TgtLocalhost == <<"l", "o", "c", "a", "l", "h", "o", "s", "t">>
TgtAnyAddr == <<"0", ".", "0", ".", "0", ".", "0">>
TgtUrl == <<"h", "t", "t", "p", ":", "/", "/", "e", "x", "a", "m", "p", "l", "e", ".", "c", "o", "m">>
TgtSafeUrl == <<"h", "t", "t", "p", ":", "/", "/", "d", "e", "m", "o", ".", "t", "e", "s", "t", "f", "i", "r", "e", ".", "n", "e", "t">>
PortValue == <<"8", "0">>

Commands ==
    { CmdNmap, CmdRmRoot, CmdChainedDelete, CmdCatPasswd, CmdUpperShadow, CmdExploit,
      CmdExploitPasswd, CmdExploitDelete, CmdCurlPipe, CmdNetcat, CmdNikto, CmdResults }

Users == {"admin", "pentest_lead", "test_user"}

\* None
None == <<>>

Entity(type, value) == [type |-> type, value |-> value]

\* The entity lists the NLU component delivers.
EntityLists ==
    { <<>>,
      <<Entity("domain", TgtExample)>>,
      <<Entity("domain", TgtLocalhost)>>,
      <<Entity("ip_address", TgtLoopback)>>,
      <<Entity("ip_address", TgtTenNet)>>,
      <<Entity("ip_address", TgtAnyAddr)>>,
      <<Entity("ip_address", TgtPublic)>>,
      <<Entity("port", PortValue), Entity("ip_address", TgtPrivate)>>,
      <<Entity("port", PortValue), Entity("ip_address", TgtPublic)>>,
      <<Entity("url", TgtUrl)>>,
      <<Entity("url", TgtSafeUrl)>> }

\* The targets the entity lists and the command line name.
Targets ==
    { TgtExample, TgtLocalhost, TgtLoopback, TgtTenNet, TgtAnyAddr, TgtPublic,
      TgtPrivate, TgtUrl, TgtSafeUrl }

\* The model applies the pure checks to the same few texts in every state;
\* these tables hold their values, computed once by the operators above.
CommandVerdict ==
    [c \in Commands |->
        [u \in Users |->
            [allowed |-> is_command_allowed(c, u),
             warning |-> CommandWarning(c, u),
             checks |-> CommandChecks(c, u),
             malicious |-> _contains_malicious_patterns(c)]]]

TargetBlocked == [t \in Targets |-> _is_target_blocked(t)]

\* The intents of NLPProcessor.intent_patterns the model follows, and the
\* "unknown" of an input no pattern matches.
NlpIntents ==
    { "network_scanning", "vulnerability_assessment", "information_gathering",
      "exploitation", "knowledge_query", "unknown" }

\* A caller of execute_command may also name the web_scanning strategy.
Intents == NlpIntents \cup {"web_scanning"}

\* NLPProcessor._requires_execution
_requires_execution(intent) ==
    intent \in { "network_scanning", "vulnerability_assessment", "exploitation",
                 "information_gathering" }

\* The intent results handed to execute_command.
IntentResults ==
    { [intent |-> i, entities |-> e, requires_execution |-> _requires_execution(i)] :
        i \in Intents, e \in EntityLists }

\* What NLPProcessor.process_intent returns.
NlpResults == { r \in IntentResults : r.intent \in NlpIntents }

\* The tools CommandExecutor asks ToolManager for.
ToolNames == {"nmap", "nikto", "whois", "subfinder", "dig", "gobuster"}

\* The sets of available tools _validate_tools may find on the host.
ToolEnvironments ==
    { ToolNames, {}, ToolNames \ {"subfinder"}, {"nmap", "gobuster"} }

\* CommandExecutor.max_execution_time, seconds
max_execution_time == 300

VARIABLES
    tool_status,        \* ToolManager.tool_status: the tools marked available
    authorized_targets, \* SecurityManager.authorized_targets
    task,               \* the call in flight and where it is suspended
    waited,             \* seconds the call has been suspended in communicate()
    procs,              \* the external processes started since the call began
    log,                \* the Logger records written since the call began
    decision,           \* the is_command_allowed evaluation of the call
    target_decision,    \* the is_target_allowed evaluation of the call
    last,               \* what the call returned (NoLast while it is in flight)
    active_sessions,    \* SecurityManager.active_sessions: session id -> session
    failed_attempts,    \* SecurityManager.failed_attempts: username -> count
    now,                \* time.time(), seconds since the manager was built
    auth,               \* what the last authenticate_user call returned
    output_files,       \* the output file names generated, with their inputs
    extensions,         \* the keys of ExtensionManager.extensions
    loaded_extensions,  \* ExtensionManager.loaded_extensions
    ext_call            \* what the last ExtensionManager call was and returned

\* The state of SecurityManager that authenticate_user reads and writes.
auth_vars == <<active_sessions, failed_attempts, now, auth>>

\* The state of ExtensionManager.
ext_vars == <<extensions, loaded_extensions, ext_call>>

vars ==
    <<tool_status, authorized_targets, task, waited, procs, log, decision,
      target_decision, last, active_sessions, failed_attempts, now, auth,
      output_files, extensions, loaded_extensions, ext_call>>

(***************************************************************************)
(* Records                                                                 *)
(***************************************************************************)
NoResult == [present |-> FALSE, success |-> FALSE, error |-> "none", strategy |-> "none"]
Result(success, error, strategy) ==
    [present |-> TRUE, success |-> success, error |-> error, strategy |-> strategy]

IdleTask ==
    [entry |-> "none", pc |-> "idle", user_id |-> "", gate |-> "none",
     intent |-> "none", entities |-> <<>>, strategy |-> "none", target |-> None,
     pending |-> <<>>, results |-> <<>>]

LogRecord(level, event, user_id) == [level |-> level, event |-> event, user_id |-> user_id]

NoDecision == [made |-> FALSE, command |-> None, user_id |-> "", allowed |-> FALSE,
               warning |-> "none", checks |-> <<>>]
NoTargetDecision == [made |-> FALSE, target |-> None, blocked |-> "none", allowed |-> FALSE]

\* The result of authenticate_user (NoAuth: no call yet).
NoAuth == [made |-> FALSE, username |-> "", success |-> FALSE, error |-> "none",
           session_id |-> <<>>]

NoLast == [entry |-> "none", user_id |-> "", intent |-> "none", entities |-> <<>>,
           gate |-> "none",
           response |-> NoResult, execution |-> NoResult, results |-> <<>>]

\* The last ExtensionManager call (NoExtCall: none yet).
NoExtCall == [op |-> "none", name |-> "", returned |-> FALSE]

Init ==
    /\ tool_status \in ToolEnvironments
    /\ authorized_targets = {}
    /\ task = IdleTask
    /\ waited = 0
    /\ procs = <<>>
    /\ log = <<>>
    /\ decision = NoDecision
    /\ target_decision = NoTargetDecision
    /\ last = NoLast
    /\ active_sessions = <<>>
    /\ failed_attempts = <<>>
    /\ now = 0
    /\ auth = NoAuth
    /\ output_files = <<>>
    /\ extensions = {}
    /\ loaded_extensions = {}
    /\ ext_call = NoExtCall

(***************************************************************************)
(* SecurityManager.is_target_allowed                                       *)
(***************************************************************************)
\* re.match(pattern, target, re.IGNORECASE) over safe_target_patterns
MatchesSafePattern(target) ==
    \E i \in 1..Len(safe_target_patterns) :
        MatchHere(safe_target_patterns[i], 1, target, 1)

SafeTarget == [t \in Targets |-> MatchesSafePattern(t)]

\* An is_target_allowed whose except clause lets the target through.
BlockedOutcomeFailOpen(blocked, user_id) ==
    CASE blocked = "True" ->
            [allowed |-> FALSE, blocked |-> blocked,
             log |-> <<LogRecord("warning", "target_blocked", user_id)>>]
      [] blocked = "False" ->
            [allowed |-> TRUE, blocked |-> blocked,
             log |-> <<LogRecord("info", "target_authorized", user_id)>>]
      [] OTHER ->
            [allowed |-> TRUE, blocked |-> blocked,
             log |-> <<LogRecord("error", "target_check_error", "")>>]

\* The end of is_target_allowed once `blocked` is what _is_target_blocked
\* gave: the value returned and the logger record written on the way.
BlockedOutcome(blocked, user_id) ==
    CASE blocked = "True" ->
            [allowed |-> FALSE, blocked |-> blocked,
             log |-> <<LogRecord("warning", "target_blocked", user_id)>>]
      [] blocked = "False" ->
            [allowed |-> TRUE, blocked |-> blocked,
             log |-> <<LogRecord("info", "target_authorized", user_id)>>]
      [] OTHER ->
            \* except Exception: log the error, return False
            [allowed |-> FALSE, blocked |-> blocked,
             log |-> <<LogRecord("error", "target_check_error", "")>>]

\* The value returned and the logger record written on the way.
TargetAllowed(target, user_id, authorized) ==
    IF target \in authorized THEN [allowed |-> TRUE, blocked |-> "none", log |-> <<>>]
    ELSE IF SafeTarget[target]
    THEN [allowed |-> TRUE, blocked |-> "none", log |-> <<>>]
    ELSE BlockedOutcome(TargetBlocked[target], user_id)

is_target_allowed(target, user_id, authorized) ==
    TargetAllowed(target, user_id, authorized).allowed

(***************************************************************************)
(* CommandExecutor                                                         *)
(***************************************************************************)
\* _get_execution_strategy: the strategy table ("none" for strategies.get -> None)
\* A strategy lookup that falls back to the network scan.
_get_execution_strategy_default(intent) ==
    CASE intent = "vulnerability_assessment" -> "_execute_vulnerability_scan"
      [] intent = "information_gathering" -> "_execute_information_gathering"
      [] intent = "web_scanning" -> "_execute_web_scan"
      [] intent = "exploitation" -> "_execute_exploitation"
      [] OTHER -> "_execute_network_scan"

_get_execution_strategy(intent) ==
    CASE intent = "network_scanning" -> "_execute_network_scan"
      [] intent = "vulnerability_assessment" -> "_execute_vulnerability_scan"
      [] intent = "information_gathering" -> "_execute_information_gathering"
      [] intent = "web_scanning" -> "_execute_web_scan"
      [] intent = "exploitation" -> "_execute_exploitation"
      [] OTHER -> "none"

target_types == {"ip_address", "domain", "url"}

\* _extract_target: the value of the first entity of a target type, or None
_extract_target(entities) ==
    IF \E i \in 1..Len(entities) : entities[i].type \in target_types
    THEN entities[CHOOSE i \in 1..Len(entities) :
                      /\ entities[i].type \in target_types
                      /\ \A j \in 1..(i - 1) : entities[j].type \notin target_types].value
    ELSE None

HttpPrefix == <<"h", "t", "t", "p", ":", "/", "/">>
HttpsPrefix == <<"h", "t", "t", "p", "s", ":", "/", "/">>

HasScheme(target) == StartsWith(target, HttpPrefix) \/ StartsWith(target, HttpsPrefix)

\* ToolManager.is_tool_available
is_tool_available(tool_name, status) == tool_name \in status

\* The tools a sequence names, kept in order, that are available.
Available(tools, status) == SelectSeq(tools, LAMBDA t : is_tool_available(t, status))

\* An is_exploitation_allowed that lets every user through.
is_exploitation_allowed_everyone(user_id) == TRUE

\* is_exploitation_allowed
is_exploitation_allowed(user_id) == user_id \in {"admin", "pentest_lead"}

\* One finished execute_tool call, as the strategy sees it.
ToolResult(tool, success, return_code, error, stdout, command) ==
    [tool |-> tool, success |-> success, return_code |-> return_code, error |-> error,
     stdout |-> stdout, command |-> command]

\* A strategy result that fails as soon as one of its tool calls failed.
StrategyResultAllOrNothing(strategy, results) ==
    Result(\A i \in 1..Len(results) : results[i].success, "none", strategy)

\* What a strategy returns once its tool calls are over.
\* _execute_nmap_scan and _execute_web_vulnerability_scan return the tool's
\* result; _execute_information_gathering and _execute_web_scan return
\* "success": True with the sub-results inside.
StrategyResult(strategy, results) ==
    IF strategy \in {"_execute_information_gathering", "_execute_web_scan"}
    THEN Result(TRUE, "none", strategy)
    ELSE Result(results[1].success, results[1].error, strategy)

\* The synchronous part of a strategy, up to its first execute_tool call, is
\* one of: the strategy's own early result (kind "return"), an exception
\* that reaches execute_command (kind "raise"), no strategy (kind
\* "no_strategy"), or the tools to run (kind "run").  `tdec` is the
\* is_target_allowed evaluation made on the way, if any.
NoCheck == [made |-> FALSE, allowed |-> FALSE, blocked |-> "none", log |-> <<>>]

Early(strategy, target, error, tdec) ==
    [kind |-> "return", strategy |-> strategy, target |-> target,
     pending |-> <<>>, result |-> Result(FALSE, error, strategy), tdec |-> tdec]

Run(strategy, target, tools, tdec) ==
    [kind |-> "run", strategy |-> strategy, target |-> target, pending |-> tools,
     result |-> NoResult, tdec |-> tdec]

\* _execute_network_scan after is_target_allowed has answered `check`
NetworkScanChecked(target, check, status) ==
    IF ~check.allowed
    THEN Early("_execute_network_scan", target, "target_not_authorized", check)
    ELSE IF is_tool_available("nmap", status)
    THEN Run("_execute_nmap_scan", target, <<"nmap">>, check)
    ELSE Early("_execute_network_scan", target, "no_tool", check)

_execute_network_scan(target, user_id, status, authorized) ==
    IF target = None THEN Early("_execute_network_scan", target, "no_target", NoCheck)
    ELSE NetworkScanChecked(
             target, [made |-> TRUE] @@ TargetAllowed(target, user_id, authorized), status)

\* An except clause that hands the exception on: the caller gets no result.
ExecutionFailedReraised(strategy) == NoResult

\* The except clause of execute_command: the result returned for an exception
\* raised below it.
ExecutionFailed(strategy) == Result(FALSE, "execution_failed", strategy)

\* self._execute_network_vulnerability_scan is not defined: the call raises
\* AttributeError.
_execute_vulnerability_scan(target, status) ==
    IF target = None
    THEN Early("_execute_vulnerability_scan", target, "no_target", NoCheck)
    ELSE IF HasScheme(target)
    THEN IF is_tool_available("nikto", status)
         THEN Run("_execute_web_vulnerability_scan", target, <<"nikto">>, NoCheck)
         ELSE Early("_execute_web_vulnerability_scan", target, "no_tool", NoCheck)
    ELSE [kind |-> "raise", strategy |-> "_execute_vulnerability_scan",
          target |-> target, pending |-> <<>>,
          result |-> ExecutionFailed("_execute_vulnerability_scan"),
          tdec |-> NoCheck]

_execute_information_gathering(target, status) ==
    IF target = None
    THEN Early("_execute_information_gathering", target, "no_target", NoCheck)
    ELSE Run("_execute_information_gathering", target,
             Available(<<"whois", "subfinder", "dig">>, status), NoCheck)

\* A web scan that hands the target on as it came.
_execute_web_scan_unprefixed(target, status) ==
    IF target = None THEN Early("_execute_web_scan", target, "no_target", NoCheck)
    ELSE Run("_execute_web_scan", target,
             Available(<<"gobuster", "nikto">>, status), NoCheck)

_execute_web_scan(target, status) ==
    IF target = None THEN Early("_execute_web_scan", target, "no_target", NoCheck)
    ELSE Run("_execute_web_scan",
             IF HasScheme(target) THEN target ELSE HttpPrefix \o target,
             Available(<<"gobuster", "nikto">>, status), NoCheck)

\* An exploitation strategy that starts msfconsole for the authorized users.
_execute_exploitation_automated(user_id) ==
    IF ~is_exploitation_allowed(user_id)
    THEN Early("_execute_exploitation", None, "exploitation_not_authorized", NoCheck)
    ELSE Run("_execute_exploitation", None, <<"metasploit">>, NoCheck)

_execute_exploitation(user_id) ==
    IF ~is_exploitation_allowed(user_id)
    THEN Early("_execute_exploitation", None, "exploitation_not_authorized", NoCheck)
    ELSE Early("_execute_exploitation", None, "manual_confirmation", NoCheck)

\* execute_command from the strategy lookup to the first execute_tool call.
StrategyPlan(strategy, target, user_id, status, authorized) ==
    CASE strategy = "none" ->
            [kind |-> "no_strategy", strategy |-> strategy, target |-> None,
             pending |-> <<>>, result |-> Result(FALSE, "no_strategy", strategy),
             tdec |-> NoCheck]
      [] strategy = "_execute_network_scan" ->
            _execute_network_scan(target, user_id, status, authorized)
      [] strategy = "_execute_vulnerability_scan" ->
            _execute_vulnerability_scan(target, status)
      [] strategy = "_execute_information_gathering" ->
            _execute_information_gathering(target, status)
      [] strategy = "_execute_web_scan" -> _execute_web_scan(target, status)
      [] strategy = "_execute_exploitation" -> _execute_exploitation(user_id)

Plan(intent_result, user_id, status, authorized) ==
    StrategyPlan(_get_execution_strategy(intent_result.intent),
                 _extract_target(intent_result.entities), user_id, status, authorized)

\* _log_execution: the record written for a finished strategy
ExecutionRecord(user_id) == LogRecord("info", "command_executed", user_id)

\* The end of a call: the value handed back to the caller of the entry point
\* and the logger records written on the way out.  `logged` tells whether
\* execute_command reached _log_execution; `exec` is execute_command's result.
\* process_command wraps it in a response with "success": True.
Finish(t, exec, logged, raised) ==
    LET lg == (IF raised THEN <<LogRecord("error", "execution_error", "")>> ELSE <<>>)
                \o (IF logged THEN <<ExecutionRecord(t.user_id)>> ELSE <<>>)
        base == [entry |-> t.entry, user_id |-> t.user_id,
                 intent |-> t.intent, entities |-> t.entities, gate |-> t.gate,
                 response |-> exec,
                 execution |-> exec, results |-> t.results]
    IN  CASE t.entry = "process_command" ->
                [last |-> [base EXCEPT !.response = Result(TRUE, "none", "none")],
                 log |-> lg \o <<LogRecord("info", "command_processed", t.user_id)>>]
          [] t.entry = "execute_command" ->
                [last |-> base, log |-> lg]
          [] t.entry = "main" ->
                [last |-> [base EXCEPT !.response = NoResult, !.execution = NoResult],
                 log |-> <<>>]

\* The strategy after a tool call has ended: start the next one, or return.
\* ToolManager.execute_tool logs the command line before it spawns.
Advance(t) ==
    IF t.pending = <<>>
    THEN LET f == Finish(t, StrategyResult(t.strategy, t.results), TRUE, FALSE)
         IN  [task |-> IdleTask, log |-> f.log, returned |-> TRUE, last |-> f.last]
    ELSE [task |-> [t EXCEPT !.pc = "spawn"],
          log |-> IF t.entry = "main" THEN <<>>
                  ELSE <<LogRecord("info", "tool_executing", "")>>,
          returned |-> FALSE, last |-> NoLast]

\* execute_command once the strategy's synchronous part has given `p`: on to
\* the first await, or to the return.
Enter(t, p) ==
    CASE p.kind = "run" ->
            [Advance(t) EXCEPT !.log = p.tdec.log \o @] @@ [tdec |-> p.tdec]
      [] p.kind = "return" ->
            [task |-> IdleTask, log |-> p.tdec.log \o Finish(t, p.result, TRUE, FALSE).log,
             returned |-> TRUE, last |-> Finish(t, p.result, TRUE, FALSE).last,
             tdec |-> p.tdec]
      [] p.kind = "no_strategy" ->
            [task |-> IdleTask, log |-> Finish(t, p.result, FALSE, FALSE).log,
             returned |-> TRUE, last |-> Finish(t, p.result, FALSE, FALSE).last,
             tdec |-> p.tdec]
      [] p.kind = "raise" ->
            [task |-> IdleTask, log |-> Finish(t, p.result, FALSE, TRUE).log,
             returned |-> TRUE, last |-> Finish(t, p.result, FALSE, TRUE).last,
             tdec |-> p.tdec]

\* The task once the strategy is chosen.
Planned(t, intent, p) ==
    [t EXCEPT !.intent = intent, !.strategy = p.strategy, !.target = p.target,
              !.pending = p.pending]

EnterPlanned(t, intent, p) == Enter(Planned(t, intent, p), p)

\* execute_command from its first statement to its first await or its return.
EnterExecute(t, intent_result, status, authorized) ==
    EnterPlanned([t EXCEPT !.entities = intent_result.entities], intent_result.intent,
                 Plan(intent_result, t.user_id, status, authorized))

TargetDecisionOf(target, tdec, old) ==
    IF tdec.made
    THEN [made |-> TRUE, target |-> target, blocked |-> tdec.blocked,
          allowed |-> tdec.allowed]
    ELSE old

\* The variables after execute_command has run to its first await or its
\* return: `e` is what EnterExecute gave, `lg` the records of the call so far
\* and `tdec` its target decision so far.
Entered(e, target, lg, tdec) ==
    /\ task' = e.task
    /\ log' = lg \o e.log
    /\ last' = IF e.returned THEN e.last ELSE NoLast
    /\ target_decision' = TargetDecisionOf(target, e.tdec, tdec)

(***************************************************************************)
(* LewisCore.process_command                                               *)
(***************************************************************************)
\* A process_command that logs the denial and carries on.
GateRejectsNothing(allowed) == FALSE

\* line 106: `if not self.security_manager.is_command_allowed(...)`: return
GateRejects(allowed) == ~allowed

\* From the call to the return of the security error, or to the await of
\* nlp_processor.process_intent.
process_command(user_input, user_id) ==
    /\ task.pc = "idle"
    /\ LET allowed == CommandVerdict[user_input][user_id].allowed
           warning == CommandVerdict[user_input][user_id].warning
           t == [IdleTask EXCEPT !.entry = "process_command", !.user_id = user_id]
           lg == <<LogRecord("info", "user_input", user_id)>>
                    \o (IF warning = "none" THEN <<>>
                        ELSE <<LogRecord("warning", warning, user_id)>>)
       IN  /\ decision' = [made |-> TRUE, command |-> user_input,
                           user_id |-> user_id, allowed |-> allowed,
                           warning |-> warning,
                           checks |-> CommandVerdict[user_input][user_id].checks]
           /\ IF GateRejects(allowed)
              THEN /\ task' = IdleTask
                   /\ log' = lg
                   /\ last' = [NoLast EXCEPT
                                 !.entry = "process_command", !.user_id = user_id,
                                 !.gate = IF allowed THEN "allowed" ELSE "denied",
                                 !.response = Result(FALSE, "security_error", "none")]
              ELSE /\ task' = [t EXCEPT !.pc = "nlp",
                                        !.gate = IF allowed THEN "allowed" ELSE "denied"]
                   /\ log' = lg
                   /\ last' = NoLast
    /\ procs' = <<>>
    /\ target_decision' = NoTargetDecision
    /\ UNCHANGED <<tool_status, authorized_targets, waited>>
    /\ UNCHANGED <<auth_vars, output_files, ext_vars>>

\* process_intent and generate_response have returned (or generate_response
\* has raised: ai_ok = FALSE); the call runs on to its return or to the
\* first tool process.  The intent result carries no "command", so the
\* extension branch is not taken.
process_intent(intent_result, ai_ok) ==
    /\ task.pc = "nlp"
    /\ IF ~ai_ok
       THEN /\ task' = IdleTask
            /\ log' = log \o <<LogRecord("error", "processing_error", "")>>
            /\ last' = [NoLast EXCEPT
                          !.entry = task.entry,
                          !.user_id = task.user_id, !.gate = task.gate,
                          !.intent = intent_result.intent,
                          !.response = Result(FALSE, "processing_error", "none")]
            /\ UNCHANGED target_decision
       ELSE IF intent_result.requires_execution
       THEN Entered(EnterExecute(task, intent_result, tool_status, authorized_targets),
                    _extract_target(intent_result.entities), log, target_decision)
       ELSE LET f == Finish([task EXCEPT !.intent = intent_result.intent],
                            NoResult, FALSE, FALSE)
            IN  /\ task' = IdleTask
                /\ log' = log \o f.log
                /\ last' = f.last
                /\ UNCHANGED target_decision
    /\ UNCHANGED <<tool_status, authorized_targets, waited, procs, decision>>
    /\ UNCHANGED <<auth_vars, output_files, ext_vars>>

(***************************************************************************)
(* CommandExecutor.execute_command, called directly                        *)
(***************************************************************************)
execute_command(intent_result, user_id) ==
    /\ task.pc = "idle"
    /\ Entered(EnterExecute([IdleTask EXCEPT !.entry = "execute_command",
                                              !.user_id = user_id],
                             intent_result, tool_status, authorized_targets),
               _extract_target(intent_result.entities), <<>>, NoTargetDecision)
    /\ procs' = <<>>
    /\ decision' = NoDecision
    /\ UNCHANGED <<tool_status, authorized_targets, waited>>
    /\ UNCHANGED <<auth_vars, output_files, ext_vars>>

(***************************************************************************)
(* lewis-cli.py main, with core/ai_engine.py generate_response             *)
(***************************************************************************)
\* generate_response: the keyword intent of the command line
CliIntent(query) ==
    LET q == Lower(query)
    IN  CASE Contains(q, <<"n", "m", "a", "p">>) \/ Contains(q, <<"s", "c", "a", "n">>)
                -> "run_nmap"
          [] Contains(q, <<"n", "i", "k", "t", "o">>) -> "run_nikto"
          [] Contains(q, <<"t", "h", "r", "e", "a", "t">>)
               \/ Contains(q, <<"p", "r", "e", "d", "i", "c", "t">>) -> "predict_threat"
          [] Contains(q, <<"f", "i", "x">>) \/ Contains(q, <<"e", "r", "r", "o", "r">>)
                -> "self_heal"
          [] OTHER -> "general"

CliIntentOf == [q \in Commands |-> CliIntent(q)]

\* The targets given with -t (None: the option is absent).
CliTargets == {None, TgtLoopback, TgtExample}

\* main with -q query and -t target: nmap_wrapper.run_nmap or
\* nikto_integration.run_nikto when the intent asks for it and a target is given.
main(query, target) ==
    /\ task.pc = "idle"
    /\ LET intent == CliIntentOf[query]
           t == [IdleTask EXCEPT !.entry = "main", !.user_id = "cli",
                                 !.intent = intent, !.target = target]
       IN  IF intent \in {"run_nmap", "run_nikto"} /\ target /= None
           THEN /\ task' = [t EXCEPT
                              !.pc = "spawn",
                              !.strategy = intent,
                              !.pending = IF intent = "run_nmap" THEN <<"nmap">>
                                          ELSE <<"nikto">>]
                /\ last' = NoLast
           ELSE /\ task' = IdleTask
                /\ last' = Finish(t, NoResult, FALSE, FALSE).last
    /\ procs' = <<>>
    /\ log' = <<>>
    /\ decision' = NoDecision
    /\ target_decision' = NoTargetDecision
    /\ UNCHANGED <<tool_status, authorized_targets, waited>>
    /\ UNCHANGED <<auth_vars, output_files, ext_vars>>

(***************************************************************************)
(* ToolManager.execute_tool (and subprocess.check_output in the CLI)       *)
(***************************************************************************)
\* Exit codes of a tool process.
ReturnCodes == {0, 1}

\* CommandExecutor._extract_ports: the value of the first port entity, or None
_extract_ports(entities) ==
    IF \E i \in 1..Len(entities) : entities[i].type = "port"
    THEN entities[CHOOSE i \in 1..Len(entities) :
                      /\ entities[i].type = "port"
                      /\ \A j \in 1..(i - 1) : entities[j].type /= "port"].value
    ELSE None

\* The path _generate_output_filename returned, as one word of a command line.
OutputFile == <<"<output_file>">>

\* The `args`, `target` and `output_file` a strategy gives to execute_tool
\* for `tool` (None: not given), and the argv of the CLI's wrappers.
ToolCall(strategy, tool, target, entities) ==
    CASE strategy = "_execute_nmap_scan" ->
            [args |-> <<<<"-", "s", "S">>>>
                        \o (IF _extract_ports(entities) /= None
                            THEN <<<<"-", "p">>, _extract_ports(entities)>> ELSE <<>>)
                        \o <<<<"-", "s", "V">>>>,
             target |-> target, output_file |-> OutputFile]
      [] strategy = "_execute_web_vulnerability_scan" ->
            [args |-> <<<<"-", "h">>, target, <<"-", "F", "o", "r", "m", "a", "t">>, <<"h", "t", "m">>>>,
             target |-> None, output_file |-> OutputFile]
      [] strategy = "_execute_information_gathering" /\ tool = "whois" ->
            [args |-> <<>>, target |-> target, output_file |-> None]
      [] strategy = "_execute_information_gathering" /\ tool = "subfinder" ->
            [args |-> <<<<"-", "d">>, target, <<"-", "o">>, OutputFile>>,
             target |-> None, output_file |-> None]
      [] strategy = "_execute_information_gathering" /\ tool = "dig" ->
            [args |-> <<target, <<"A", "N", "Y">>>>, target |-> None, output_file |-> None]
      [] strategy = "_execute_web_scan" /\ tool = "gobuster" ->
            [args |-> <<<<"d", "i", "r">>, <<"-", "u">>, target, <<"-", "w">>, <<"/", "u", "s", "r", "/", "s", "h", "a", "r", "e", "/", "w", "o", "r", "d", "l", "i", "s", "t", "s", "/", "d", "i", "r", "b", "/", "c", "o", "m", "m", "o", "n", ".", "t", "x", "t">>, <<"-", "t">>, <<"5", "0">>>>,
             target |-> None, output_file |-> None]
      [] strategy = "_execute_web_scan" /\ tool = "nikto" ->
            [args |-> <<<<"-", "h">>, target>>, target |-> None, output_file |-> None]
      [] strategy = "run_nmap" ->
            [args |-> <<<<"-", "s", "V">>, target>>, target |-> None, output_file |-> None]
      [] strategy = "run_nikto" ->
            [args |-> <<<<"-", "h">>, target>>, target |-> None, output_file |-> None]
      [] OTHER -> [args |-> <<>>, target |-> None, output_file |-> None]

\* tool_config["path"] with the default settings
ToolPath(tool) ==
    CASE tool = "nmap" -> <<"n", "m", "a", "p">>
      [] tool = "nikto" -> <<"n", "i", "k", "t", "o">>
      [] tool = "whois" -> <<"w", "h", "o", "i", "s">>
      [] tool = "subfinder" -> <<"s", "u", "b", "f", "i", "n", "d", "e", "r">>
      [] tool = "dig" -> <<"d", "i", "g">>
      [] tool = "gobuster" -> <<"g", "o", "b", "u", "s", "t", "e", "r">>
      [] OTHER -> <<"/", "u", "s", "r", "/", "s", "h", "a", "r", "e", "/", "m", "e", "t", "a", "s", "p", "l", "o", "i", "t", "-", "f", "r", "a", "m", "e", "w", "o", "r", "k">>

\* tool_config["output_formats"], empty where the tool has none
output_formats(tool) ==
    CASE tool = "nmap" -> <<<<"-", "o", "N">>, <<"-", "o", "X">>, <<"-", "o", "G">>>>
      [] tool = "nikto" -> <<<<"-", "o", "u", "t", "p", "u", "t">>>>
      [] OTHER -> <<>>

\* An execute_tool that leaves the target out of the command.
CommandWithoutTarget(tool, call) ==
    <<ToolPath(tool)>> \o call.args
        \o (IF call.output_file /= None /\ output_formats(tool) /= <<>>
            THEN <<output_formats(tool)[1], call.output_file>> ELSE <<>>)

\* The command execute_tool builds: the path, the args, the target if given,
\* the first output format and the output file if both exist.
Command(tool, call) ==
    <<ToolPath(tool)>> \o call.args
        \o (IF call.target /= None THEN <<call.target>> ELSE <<>>)
        \o (IF call.output_file /= None /\ output_formats(tool) /= <<>>
            THEN <<output_formats(tool)[1], call.output_file>> ELSE <<>>)

\* " ".join(command)
RECURSIVE Join(_)
Join(command) ==
    IF command = <<>> THEN <<>>
    ELSE IF Len(command) = 1 THEN command[1]
    ELSE command[1] \o <<" ">> \o Join(Tail(command))

Process(t, tool) ==
    [entry |-> t.entry, tool |-> tool, target |-> t.target, gate |-> t.gate,
     command |-> Command(tool, ToolCall(t.strategy, tool, t.target, t.entities)),
     status |-> "running", return_code |-> -1]

\* asyncio.create_subprocess_exec returns the process (ok) or raises; the
\* exception is caught at the end of execute_tool, whose result the strategy
\* takes as the tool's.  In the CLI the exception ends main.
create_subprocess_exec(ok) ==
    /\ task.pc = "spawn"
    /\ LET tool == Head(task.pending)
       IN  IF ok
           THEN /\ procs' = Append(procs, Process(task, tool))
                /\ task' = [task EXCEPT !.pc = "communicate"]
                /\ UNCHANGED <<log, last>>
           ELSE LET t == [task EXCEPT
                            !.pending = Tail(task.pending),
                            !.results = Append(task.results,
                                               ToolResult(tool, FALSE, -1, "spawn_error", -1, None))]
                    a == Advance(t)
                IN  /\ procs' = procs
                    /\ task' = a.task
                    /\ log' = log \o (IF task.entry = "main" THEN <<>>
                                      ELSE <<LogRecord("error", "tool_error", "")>>)
                                  \o a.log
                    /\ last' = IF a.returned THEN a.last ELSE last
    /\ UNCHANGED <<tool_status, authorized_targets, waited, decision, target_decision>>
    /\ UNCHANGED <<auth_vars, output_files, ext_vars>>

\* self.max_output_size of CommandExecutor, in bytes; nothing reads it.
max_output_size == 10 * 1024 * 1024

\* What a tool process wrote to its stdout pipe: the number of bytes that are
\* ASCII text and the number of bytes that are not valid UTF-8.
Outputs == {[ascii |-> 1, invalid |-> 1], [ascii |-> max_output_size + 1, invalid |-> 0]}

\* stdout.decode("utf-8", errors="ignore"): the length of the text; the
\* invalid bytes are dropped, every other byte is kept.  stderr goes through
\* the same expression.
decode(out) == out.ascii

\* `success` of execute_tool's result: line 275
ToolSuccess(return_code) == return_code = 0

\* process.communicate() returns: the process has exited with return_code
\* after writing `out`.
communicate(return_code, out) ==
    /\ task.pc = "communicate"
    /\ LET n == Len(procs)
           tool == Head(task.pending)
           ok == ToolSuccess(return_code)
           t == [task EXCEPT
                   !.pending = Tail(task.pending),
                   !.results = Append(task.results,
                                      ToolResult(tool, ok, return_code, "none", decode(out),
                                                 Join(procs[n].command)))]
           a == Advance(t)
       IN  /\ procs' = [procs EXCEPT ![n].status = "exited",
                                     ![n].return_code = return_code]
           /\ task' = a.task
           /\ log' = log \o (IF task.entry = "main" THEN <<>>
                             ELSE IF ok
                             THEN <<LogRecord("info", "tool_succeeded", "")>>
                             ELSE <<LogRecord("error", "tool_failed", "")>>)
                         \o a.log
           /\ last' = IF a.returned THEN a.last ELSE last
    /\ waited' = 0
    /\ UNCHANGED <<tool_status, authorized_targets, decision, target_decision>>
    /\ UNCHANGED <<auth_vars, output_files, ext_vars>>

\* Time passes while the tool process runs; nothing in execute_tool watches it.
Tick ==
    /\ task.pc = "communicate"
    /\ waited < MaxTicks * TickSeconds
    /\ waited' = waited + TickSeconds
    /\ UNCHANGED <<tool_status, authorized_targets, task, procs, log, decision,
                   target_decision, last>>
    /\ UNCHANGED <<auth_vars, output_files, ext_vars>>

(***************************************************************************)
(* SecurityManager.authenticate_user                                       *)
(***************************************************************************)
\* security.session_timeout, seconds (the default of the settings)
session_timeout == 3600
\* security.max_failed_attempts (the default of the settings)
max_failed_attempts == 5
\* security.allowed_ips (the default of the settings: no allowlist)
allowed_ips == {}

\* The user names, passwords and client addresses given to authenticate_user.
AuthUsers == {"test_user"}
Passwords == {"", "secret"}
ClientIps == {"198.51.100.7"}

\* _is_ip_allowed: the allowlist holds single addresses here
_is_ip_allowed(ip) == ip \in allowed_ips

\* A lock check that never locks.
_is_account_locked_never(username, attempts) == FALSE

\* _is_account_locked
_is_account_locked(username, attempts) ==
    username \in DOMAIN attempts /\ attempts[username] >= max_failed_attempts

\* _validate_credentials: bool(username and password)
_validate_credentials(username, password) == username /= "" /\ password /= ""

\* The key of a session: md5 of the user name and the time of the call.
SessionId(username, time) == <<username, time>>

\* _create_session: active_sessions[session_id] = {...}
_create_session(sessions, username, ip, time) ==
    [id \in DOMAIN sessions \cup {SessionId(username, time)} |->
        IF id = SessionId(username, time)
        THEN [username |-> username, ip_address |-> ip, created_at |-> time,
              expires_at |-> time + session_timeout]
        ELSE sessions[id]]

\* _record_failed_attempt: the count of the user name, started at 0, plus one
_record_failed_attempt(attempts, username) ==
    [u \in DOMAIN attempts \cup {username} |->
        IF u = username
        THEN (IF username \in DOMAIN attempts THEN attempts[username] ELSE 0) + 1
        ELSE attempts[u]]

\* failed_attempts.pop(username, None)
Pop(attempts, username) == [u \in DOMAIN attempts \ {username} |-> attempts[u]]

AuthResult(username, success, error, session_id) ==
    [made |-> TRUE, username |-> username, success |-> success, error |-> error,
     session_id |-> session_id]

authenticate_user(username, password, ip) ==
    /\ IF allowed_ips /= {} /\ ip /= None /\ ~_is_ip_allowed(ip)
       THEN /\ auth' = AuthResult(username, FALSE, "ip_not_allowed", None)
            /\ UNCHANGED <<active_sessions, failed_attempts>>
       ELSE IF _is_account_locked(username, failed_attempts)
       THEN /\ auth' = AuthResult(username, FALSE, "account_locked", None)
            /\ UNCHANGED <<active_sessions, failed_attempts>>
       ELSE IF _validate_credentials(username, password)
       THEN /\ active_sessions' = _create_session(active_sessions, username, ip, now)
            /\ failed_attempts' = Pop(failed_attempts, username)
            /\ auth' = AuthResult(username, TRUE, "none", SessionId(username, now))
       ELSE /\ failed_attempts' = _record_failed_attempt(failed_attempts, username)
            /\ auth' = AuthResult(username, FALSE, "invalid_credentials", None)
            /\ UNCHANGED active_sessions
    /\ UNCHANGED <<tool_status, authorized_targets, task, waited, procs, log, decision,
                   target_decision, last, now, output_files, ext_vars>>

\* The clock moves on; nothing removes a session whose expires_at has passed.
Elapse ==
    /\ now < MaxClockTicks * ClockSeconds
    /\ now' = now + ClockSeconds
    /\ UNCHANGED <<tool_status, authorized_targets, task, waited, procs, log, decision,
                   target_decision, last, active_sessions, failed_attempts, auth,
                   output_files, ext_vars>>

\* A session of the user exists and has not expired.
HasLiveSession(user_id) ==
    \E id \in DOMAIN active_sessions :
        /\ active_sessions[id].username = user_id
        /\ active_sessions[id].expires_at > now

\* The requests made while users log in and sessions age.
SessionCommands == {CmdNmap, CmdCatPasswd}
SessionResults ==
    { r \in NlpResults :
        /\ r.intent \in {"network_scanning", "knowledge_query"}
        /\ r.entities = <<Entity("ip_address", TgtPublic)>> }

(***************************************************************************)
(* CommandExecutor._generate_output_filename                               *)
(***************************************************************************)
\* target.replace(".", "_").replace("/", "_").replace(":", "_")
safe_target(target) ==
    [i \in 1..Len(target) |-> IF target[i] \in {".", "/", ":"} THEN "_" ELSE target[i]]

\* datetime.now().strftime("%Y%m%d_%H%M%S") of the instant `ms` (milliseconds
\* on the model's clock): the text names the whole second and drops the rest.
strftime(ms) == ms \div 1000

\* The parts of f"{tool}_{safe_target}_{timestamp}_{user_id}.txt"
OutputFilename(tool, target, user_id, ms) ==
    <<tool, safe_target(target), strftime(ms), user_id>>

\* The milliseconds past the whole second at which a call reads the clock.
SubSecond == {0, 500}
\* The calls that name an output file: nmap, nikto and subfinder runs.
FileTools == {"nmap", "subfinder"}
FileTargets == {TgtExample, TgtPublic}
FileUsers == {"admin", "test_user"}

\* One call of _generate_output_filename by a strategy, at now + ms.
_generate_output_filename(tool, target, user_id, ms) ==
    /\ Len(output_files) < MaxFiles
    /\ output_files' =
          Append(output_files,
                 [tool |-> tool, target |-> target, user_id |-> user_id,
                  time |-> 1000 * now + ms,
                  name |-> OutputFilename(tool, target, user_id, 1000 * now + ms)])
    /\ UNCHANGED <<tool_status, authorized_targets, task, waited, procs, log, decision,
                   target_decision, last, auth_vars, ext_vars>>

(***************************************************************************)
(* SecurityManager.add_authorized_target and is_target_allowed, called     *)
(* directly                                                                *)
(***************************************************************************)
\* _validate_target_format: re.match of the IP, the domain or the URL
\* pattern.  `$` also matches before a final newline; no text here has one.
_validate_target_format(target) ==
    LET alnum(c) == IsDigit(c) \/ \E i \in 1..Len(LowerLetters) : LowerLetters[i] = LowerChar(c)
        parts == Split(target, ".")
        \* ^(?:[0-9]{1,3}\.){3}[0-9]{1,3}$
        ip_pattern ==
            /\ Len(parts) = 4
            /\ \A i \in 1..4 :
                  /\ Len(parts[i]) \in 1..3
                  /\ \A j \in 1..Len(parts[i]) : IsDigit(parts[i][j])
        \* ^label(\.label)*$ with label = [a-zA-Z0-9]([a-zA-Z0-9\-]{0,61}[a-zA-Z0-9])?
        domain_pattern ==
            \A i \in 1..Len(parts) :
                /\ Len(parts[i]) \in 1..63
                /\ alnum(parts[i][1])
                /\ alnum(parts[i][Len(parts[i])])
                /\ \A j \in 1..Len(parts[i]) : alnum(parts[i][j]) \/ parts[i][j] = "-"
        rest == IF StartsWith(target, HttpsPrefix)
                THEN SubSeq(target, Len(HttpsPrefix) + 1, Len(target))
                ELSE SubSeq(target, Len(HttpPrefix) + 1, Len(target))
        \* ^https?://[^\s/$.?#].[^\s]*$
        url_pattern ==
            /\ HasScheme(target)
            /\ Len(rest) >= 2
            /\ rest[1] \notin Whitespace \cup {"/", "$", ".", "?", "#"}
            /\ rest[2] /= "\n"
            /\ \A j \in 3..Len(rest) : rest[j] \notin Whitespace
    IN  ip_pattern \/ domain_pattern \/ url_pattern

\* The targets users ask to have authorized.
AuthorizeInputs == {TgtLoopback, TgtTenNet, TgtUrl, CmdResults}

add_authorized_target(target, user_id) ==
    /\ task.pc = "idle"
    /\ IF _validate_target_format(target)
       THEN /\ authorized_targets' = authorized_targets \cup {target}
            /\ log' = <<LogRecord("info", "target_authorized", user_id)>>
            /\ last' = [NoLast EXCEPT !.entry = "add_authorized_target",
                                      !.user_id = user_id,
                                      !.response = Result(TRUE, "none", "none")]
       ELSE /\ authorized_targets' = authorized_targets
            /\ log' = <<LogRecord("warning", "invalid_target_format", "")>>
            /\ last' = [NoLast EXCEPT !.entry = "add_authorized_target",
                                      !.user_id = user_id,
                                      !.response = Result(FALSE, "invalid_target_format", "none")]
    /\ UNCHANGED <<tool_status, task, waited, procs, decision, target_decision,
                   auth_vars, output_files, ext_vars>>

\* is_target_allowed called by a client of SecurityManager.
is_target_allowed_call(target, user_id) ==
    /\ task.pc = "idle"
    /\ target_decision' =
          TargetDecisionOf(target,
                           [made |-> TRUE] @@ TargetAllowed(target, user_id, authorized_targets),
                           NoTargetDecision)
    /\ log' = TargetAllowed(target, user_id, authorized_targets).log
    /\ last' = [NoLast EXCEPT
                  !.entry = "is_target_allowed", !.user_id = user_id,
                  !.response = Result(is_target_allowed(target, user_id, authorized_targets),
                                      "none", "none")]
    /\ UNCHANGED <<tool_status, authorized_targets, task, waited, procs, decision,
                   auth_vars, output_files, ext_vars>>

\* A command that is None, not a text: command.lower() raises AttributeError.
NoneCommand == <<"None">>

\* is_command_allowed called by a client of SecurityManager; an exception
\* inside it is logged and answered with False.
is_command_allowed_call(command, user_id) ==
    /\ task.pc = "idle"
    /\ IF command = NoneCommand
       THEN /\ decision' = [made |-> TRUE, command |-> command, user_id |-> user_id,
                            allowed |-> FALSE, warning |-> "none", checks |-> <<>>]
            /\ log' = <<LogRecord("error", "command_check_error", "")>>
       ELSE /\ decision' = [made |-> TRUE, command |-> command, user_id |-> user_id,
                            allowed |-> CommandVerdict[command][user_id].allowed,
                            warning |-> CommandVerdict[command][user_id].warning,
                            checks |-> CommandVerdict[command][user_id].checks]
            /\ log' = IF CommandVerdict[command][user_id].warning = "none" THEN <<>>
                      ELSE <<LogRecord("warning", CommandVerdict[command][user_id].warning,
                                       user_id)>>
    /\ last' = [NoLast EXCEPT
                  !.entry = "is_command_allowed", !.user_id = user_id,
                  !.response = Result(decision'.allowed, "none", "none")]
    /\ UNCHANGED <<tool_status, authorized_targets, task, waited, procs, target_decision,
                   auth_vars, output_files, ext_vars>>

(***************************************************************************)
(* ExtensionManager                                                        *)
(***************************************************************************)
\* The extensions of src/examples.
ExtensionNames == {"custom_interface_extension", "network_security_extension"}

\* How loading goes on: the import or the constructor raises, initialize()
\* raises, initialize() returns False, initialize() returns True.
LoadOutcomes == {"import_error", "init_raises", "init_false", "ok"}

\* cleanup() returns True, returns False, or raises.
CleanupOutcomes == {"ok", "false", "raises"}

\* load_extension on the tables `st`: the tables afterwards and the value
\* returned.
Load(st, name, outcome) ==
    IF name \in st.loaded THEN [st EXCEPT !.returned = TRUE]
    ELSE IF outcome = "ok"
    THEN [extensions |-> st.extensions \cup {name}, loaded |-> st.loaded \cup {name},
          returned |-> TRUE]
    ELSE [st EXCEPT !.returned = FALSE]

\* An unload_extension that forgets loaded_extensions.
UnloadKeepsLoaded(st, name, cleanup) ==
    IF name \notin st.extensions THEN [st EXCEPT !.returned = FALSE]
    ELSE IF cleanup = "ok"
    THEN [extensions |-> st.extensions \ {name}, loaded |-> st.loaded,
          returned |-> TRUE]
    ELSE [st EXCEPT !.returned = FALSE]

\* unload_extension on the tables `st`
Unload(st, name, cleanup) ==
    IF name \notin st.extensions THEN [st EXCEPT !.returned = FALSE]
    ELSE IF cleanup = "ok"
    THEN [extensions |-> st.extensions \ {name}, loaded |-> st.loaded \ {name},
          returned |-> TRUE]
    ELSE [st EXCEPT !.returned = FALSE]

\* unload_all_extensions: unload_extension for each key of the list taken at
\* the start; `cleanups` tells how each cleanup() goes.
RECURSIVE UnloadEach(_, _, _)
UnloadEach(st, names, cleanups) ==
    IF names = {} THEN st
    ELSE LET n == CHOOSE x \in names : TRUE
         IN  UnloadEach(Unload(st, n, cleanups[n]), names \ {n}, cleanups)

\* The tables of the manager, and the variables after a call left them as `st`.
Tables == [extensions |-> extensions, loaded |-> loaded_extensions, returned |-> FALSE]

Returned(op, name, st) ==
    /\ extensions' = st.extensions
    /\ loaded_extensions' = st.loaded
    /\ ext_call' = [op |-> op, name |-> name, returned |-> st.returned]

load_extension(name, outcome) ==
    /\ Returned("load_extension", name, Load(Tables, name, outcome))
    /\ UNCHANGED <<tool_status, authorized_targets, task, waited, procs, log, decision,
                   target_decision, last, auth_vars, output_files>>

unload_extension(name, cleanup) ==
    /\ Returned("unload_extension", name, Unload(Tables, name, cleanup))
    /\ UNCHANGED <<tool_status, authorized_targets, task, waited, procs, log, decision,
                   target_decision, last, auth_vars, output_files>>

\* `found`: discover_extensions still lists the extension.
reload_extension(name, found, cleanup, outcome) ==
    /\ Returned("reload_extension", name,
                IF name \notin extensions \/ ~found THEN Tables
                ELSE IF Unload(Tables, name, cleanup).returned
                THEN Load(Unload(Tables, name, cleanup), name, outcome)
                ELSE Unload(Tables, name, cleanup))
    /\ UNCHANGED <<tool_status, authorized_targets, task, waited, procs, log, decision,
                   target_decision, last, auth_vars, output_files>>

\* The method returns nothing.
unload_all_extensions(cleanups) ==
    /\ Returned("unload_all_extensions", "",
                [UnloadEach(Tables, extensions, cleanups) EXCEPT !.returned = FALSE])
    /\ UNCHANGED <<tool_status, authorized_targets, task, waited, procs, log, decision,
                   target_decision, last, auth_vars, output_files>>

(***************************************************************************)
(* Properties                                                              *)
(***************************************************************************)
\* The logger records of `lg` whose event is in `events`.
CountEvents(lg, events) == Cardinality({i \in 1..Len(lg) : lg[i].event \in events})

SecurityEvents == {"command_blocked", "restricted_path", "malicious_pattern", "security_event"}

IsPrefix(a, b) == Len(a) <= Len(b) /\ SubSeq(b, 1, Len(a)) = a

\* C1: when is_command_allowed denies the request inside process_command,
\* the call returns success=false at once: execute_tool is not invoked, no
\* process is started and execute_command is not entered.
C1_DeniedStartsNothing ==
    (decision.made /\ ~decision.allowed) =>
        /\ task = IdleTask
        /\ procs = <<>>
        /\ CountEvents(log, {"tool_executing", "command_executed"}) = 0
        /\ last.entry = "process_command"
        /\ last.response.present
        /\ ~last.response.success
        /\ ~last.execution.present

C1_Witness ==
    /\ decision.made
    /\ ~decision.allowed
    /\ last.entry = "process_command"
    /\ last.response.error = "security_error"

\* C2: every tool process was started by a call whose authorization check
\* had allowed the request, whatever the entry point.
C2_EverySpawnGated ==
    \A i \in 1..Len(procs) : procs[i].gate = "allowed"

\* C3: a command text that matches a malicious-pattern rule is denied for
\* every user, the admin users included, and its call starts no process.
C3_MaliciousAlwaysDenied ==
    (decision.made /\ _contains_malicious_patterns(decision.command)) =>
        /\ ~decision.allowed
        /\ decision.warning /= "none"
        /\ procs = <<>>

C3_Witness ==
    /\ decision.made
    /\ decision.user_id \in admin_users
    /\ _contains_malicious_patterns(decision.command)
    /\ decision.warning = "malicious_pattern"
    /\ ~decision.allowed

CheckOfWarning(warning) ==
    CASE warning = "command_blocked" -> "dangerous_commands"
      [] warning = "restricted_path" -> "restricted_paths"
      [] warning = "malicious_pattern" -> "malicious_patterns"

HasDangerousKeyword(command) ==
    \E c \in 1..Len(DangerousCategories) : KeywordHit(command, DangerousCategories[c])

\* C5: a command holding a keyword of a dangerous-command category is denied
\* unless the user is explicitly authorized (an admin user); 'rm -rf /' from
\* test_user is denied and 'nmap example.com' from test_user is allowed.
C5_DangerousKeywordDenied ==
    decision.made =>
        /\ (HasDangerousKeyword(decision.command) /\ decision.user_id \notin admin_users
              => ~decision.allowed)
        /\ (decision.command = CmdNmap /\ decision.user_id = "test_user"
              => decision.allowed)

\* C6: every authorization decision, allowed or denied, has written exactly
\* one security-event record.
C6_OneSecurityEventPerDecision ==
    decision.made => CountEvents(log, SecurityEvents) = 1

\* C7: every execute_command call that has returned has written one
\* execution record, whatever its outcome.
C7_EveryExecutionLogged ==
    last.execution.present => CountEvents(log, {"command_executed"}) = 1

\* C8: a result of execute_command with success=true means that a process
\* was run for the request and that every process run for it exited with 0.
C8_SuccessMeansCleanExit ==
    (last.execution.present /\ last.execution.success) =>
        /\ procs /= <<>>
        /\ \A i \in 1..Len(procs) :
              procs[i].status = "exited" /\ procs[i].return_code = 0

\* C9: a tool process is not left running past the timeout: once
\* max_execution_time has passed it has been terminated and the call has
\* its timeout result.
C9_TimeoutTerminates ==
    \A i \in 1..Len(procs) :
        procs[i].status = "running" => waited <= max_execution_time

\* The targets of the model that lie in a private, loopback or link-local
\* range or are one of the literals localhost and 0.0.0.0.
ClaimedBlocked == {TgtLoopback, TgtPrivate, TgtTenNet, TgtLocalhost, TgtAnyAddr}

\* C10: the blocked-target check answers true for the blocked ranges and
\* literals and false, without failing, for every other target.
C10_BlockedCheck ==
    (target_decision.made /\ target_decision.blocked /= "none") =>
        target_decision.blocked =
            (IF target_decision.target \in ClaimedBlocked THEN "True" ELSE "False")

\* C11: is_target_allowed answers true for every target outside the blocked
\* ranges and literals, on the authorized list or not; example.com is allowed.
C11_UnblockedTargetAllowed ==
    (target_decision.made /\ target_decision.target \notin ClaimedBlocked) =>
        target_decision.allowed

\* The targets of the model inside a blocked range.
InBlockedRange == {TgtLoopback, TgtPrivate, TgtTenNet}

\* C12: whatever the intent, no tool process of a strategy is started for a
\* target inside a blocked range.
C12_BlockedTargetNeverRun ==
    \A i \in 1..Len(procs) :
        procs[i].entry \in {"process_command", "execute_command"} =>
            procs[i].target \notin InBlockedRange

\* C13: a process_command call of a user who has no unexpired session is
\* denied.
C13_NoSessionDenied ==
    [][(decision' /= decision /\ decision'.made
          /\ ~HasLiveSession(decision'.user_id)) => ~decision'.allowed]_vars

\* C14: for every user and every entity list, execute_command on the intent
\* exploitation returns success=false and starts no process.
C14_ExploitationNeverRuns ==
    (last.execution.present /\ last.intent = "exploitation") =>
        /\ ~last.execution.success
        /\ procs = <<>>

C14_Witness ==
    /\ last.execution.present
    /\ last.intent = "exploitation"
    /\ last.user_id \in admin_users
    /\ ~last.execution.success

ResultTools(results) == [i \in 1..Len(results) |-> results[i].tool]

\* The result recorded for `tool` says `success`.
Recorded(results, tool, success) ==
    \E i \in 1..Len(results) : results[i].tool = tool /\ results[i].success = success

\* An information-gathering call that got past its target test has returned.
InfoGatheringDone ==
    /\ last.execution.present
    /\ last.intent = "information_gathering"
    /\ last.execution.error /= "no_target"

\* C16 as stated: when subfinder failed or is unavailable and whois and dig
\* succeeded, information gathering returns success=true and its results
\* hold an entry for each of the three sub-tools.
C16_BreakdownOfAllThree ==
    (/\ InfoGatheringDone
     /\ Recorded(last.results, "whois", TRUE)
     /\ Recorded(last.results, "dig", TRUE)
     /\ ~Recorded(last.results, "subfinder", TRUE)) =>
        /\ last.execution.success
        /\ \A tool \in {"whois", "subfinder", "dig"} :
              \E i \in 1..Len(last.results) : last.results[i].tool = tool

\* C16 amended: information gathering returns success=true whatever its
\* sub-tools did; every available sub-tool was run, in the order whois,
\* subfinder, dig, whether or not an earlier one failed, and has an entry
\* with its own success; an unavailable sub-tool has no entry.
C16_PartialTolerant ==
    InfoGatheringDone =>
        /\ last.execution.success
        /\ ResultTools(last.results)
              = Available(<<"whois", "subfinder", "dig">>, tool_status)
        /\ \A i \in 1..Len(last.results) :
              /\ last.results[i].error = "spawn_error" => ~last.results[i].success
              /\ last.results[i].error = "none" =>
                    last.results[i].success = (last.results[i].return_code = 0)
        /\ Len(procs) <= Len(last.results)

C16_Witness ==
    /\ InfoGatheringDone
    /\ Recorded(last.results, "whois", TRUE)
    /\ Recorded(last.results, "subfinder", FALSE)
    /\ Recorded(last.results, "dig", TRUE)
    /\ last.execution.success

\* C17: a web scan returns success=true exactly when its gobuster step and
\* its nikto step both ran and both succeeded.
C17_WebScanSuccessIsAnd ==
    (last.execution.present /\ last.intent = "web_scanning") =>
        (last.execution.success <=>
            /\ Recorded(last.results, "gobuster", TRUE)
            /\ Recorded(last.results, "nikto", TRUE))

\* C18: two output file names generated for tool invocations are never
\* equal, for calls at different times and for calls at the same timestamp.
C18_FilenamesDistinct ==
    \A i, j \in 1..Len(output_files) :
        i /= j => output_files[i].name /= output_files[j].name

\* C19: the stdout and stderr placed in a result never exceed the output
\* ceiling of 10 MiB; a longer output is cut at the ceiling and marked.
C19_OutputWithinCeiling ==
    /\ \A i \in 1..Len(task.results) : task.results[i].stdout <= max_output_size
    /\ \A i \in 1..Len(last.results) : last.results[i].stdout <= max_output_size

\* C20: a vulnerability-assessment request with a target is answered by a
\* sub-strategy: the web one (nikto) for an http:// or https:// target, a
\* network one for any other target, whose result is the request's result.
C20_VulnerabilityDispatch ==
    (/\ last.entry = "execute_command"
     /\ last.intent = "vulnerability_assessment"
     /\ last.execution.error /= "no_target")
    => /\ last.execution.strategy \in {"_execute_web_vulnerability_scan",
                                       "_execute_network_vulnerability_scan"}
       /\ last.execution.strategy = "_execute_web_vulnerability_scan"
            => \A i \in 1..Len(last.results) : last.results[i].tool = "nikto"

\* C21: execute_command never raises to its caller: every call that has
\* ended returned a result with a boolean success; an exception below it
\* gives success = false with an error, and a tool call that raised gives a
\* failed tool result.
C21_NeverRaises ==
    last.entry = "execute_command"
    => /\ last.execution.present
       /\ last.execution.success \in BOOLEAN
       /\ (\E i \in 1..Len(log) : log[i].event = "execution_error")
            => /\ ~last.execution.success
               /\ last.execution.error = "execution_failed"
       /\ \A i \in 1..Len(last.results) :
            last.results[i].error = "spawn_error" => ~last.results[i].success

C21_Witness ==
    /\ last.entry = "execute_command"
    /\ \E i \in 1..Len(log) : log[i].event = "execution_error"
    /\ last.execution.present
    /\ last.execution.error = "execution_failed"

\* The intents of the strategy table of _get_execution_strategy.
StrategyTable ==
    { "network_scanning", "vulnerability_assessment", "information_gathering",
      "web_scanning", "exploitation" }

\* C22: for every intent outside the strategy table, execute_command returns
\* success = false with the "no execution strategy" error and starts no
\* external process.
C22_NoStrategyNoExecution ==
    /\ (task.entry = "execute_command" /\ task.intent \notin StrategyTable)
         => task.pc = "idle" /\ procs = <<>>
    /\ (last.entry = "execute_command" /\ last.intent \notin StrategyTable)
         => /\ last.execution.present
            /\ ~last.execution.success
            /\ last.execution.error = "no_strategy"
            /\ last.results = <<>>
            /\ procs = <<>>

C22_Witness ==
    /\ last.entry = "execute_command"
    /\ last.intent = "knowledge_query"
    /\ last.execution.error = "no_strategy"
    /\ procs = <<>>

HasNetworkTarget(entities) ==
    \E i \in 1..Len(entities) : entities[i].type \in {"ip_address", "domain"}

\* C23: a network scan whose entities hold no ip_address/domain target, or
\* for which nmap is not available, returns success = false with an error
\* and starts no external process.
C23_NetworkScanPreconditions ==
    /\ (/\ task.entry = "execute_command"
        /\ task.intent = "network_scanning"
        /\ \/ ~HasNetworkTarget(task.entities)
           \/ ~is_tool_available("nmap", tool_status))
         => task.pc = "idle" /\ procs = <<>>
    /\ (/\ last.entry = "execute_command"
        /\ last.intent = "network_scanning"
        /\ \/ ~HasNetworkTarget(last.entities)
           \/ ~is_tool_available("nmap", tool_status))
         => /\ last.execution.present
            /\ ~last.execution.success
            /\ last.execution.error /= "none"
            /\ last.results = <<>>
            /\ procs = <<>>

\* The ip_address entities of a request.
IpEntities(entities) == { i \in 1..Len(entities) : entities[i].type = "ip_address" }

\* A finished network_scanning request with one ip_address entity, for an
\* address outside the blocked ranges, with nmap available.
NmapScanDone ==
    /\ last.entry \in {"execute_command", "process_command"}
    /\ last.intent = "network_scanning"
    /\ last.execution.present
    /\ Cardinality(IpEntities(last.entities)) = 1
    /\ \A i \in IpEntities(last.entities) :
          /\ _extract_target(last.entities) = last.entities[i].value
          /\ TargetBlocked[last.entities[i].value] = "False"
    /\ is_tool_available("nmap", tool_status)

\* nmap, the SYN-scan flag, the port flag and value when a port entity is
\* present, the service-detection flag and the target.
ScanArgv(entities) ==
    <<<<"n", "m", "a", "p">>, <<"-", "s", "S">>>>
        \o (IF \E i \in 1..Len(entities) : entities[i].type = "port"
            THEN <<<<"-", "p">>, _extract_ports(entities)>> ELSE <<>>)
        \o <<<<"-", "s", "V">>, _extract_target(entities)>>

\* C24 (as stated): such a request invokes execute_tool exactly once, for
\* nmap, with an argv made of the SYN-scan flag, the port flag and value only
\* when a port entity is present, the service-detection flag and the target,
\* and the command field of the result contains the target.
C24_ArgvOfScanFlagsAndTarget ==
    NmapScanDone
    => /\ Len(last.results) = 1
       /\ last.results[1].tool = "nmap"
       /\ Len(procs) = 1
       /\ procs[1].command = ScanArgv(last.entities)
       /\ Contains(last.results[1].command, _extract_target(last.entities))

\* C24 (as the code has it): such a request invokes execute_tool exactly
\* once, for nmap; the argv is the one above followed by the output option
\* -oN and the output file, and the command field of the result contains the
\* target whenever the process could be started.
C24_ArgvWithOutputFile ==
    NmapScanDone
    => /\ Len(last.results) = 1
       /\ last.results[1].tool = "nmap"
       /\ Len(procs) <= 1
       /\ \A i \in 1..Len(procs) :
            procs[i].command = ScanArgv(last.entities) \o <<<<"-", "o", "N">>, OutputFile>>
       /\ last.results[1].error /= "spawn_error"
            => /\ Len(procs) = 1
               /\ last.results[1].command = Join(procs[1].command)
               /\ Contains(last.results[1].command, _extract_target(last.entities))

C24_Witness ==
    /\ NmapScanDone
    /\ \E i \in 1..Len(last.entities) : last.entities[i].type = "port"
    /\ last.results[1].success
    /\ Len(procs) = 1
    /\ Contains(last.results[1].command, TgtPublic)

\* The entities of the web scan that is running or has just ended.
WebScanEntities ==
    IF task.strategy = "_execute_web_scan" THEN task.entities ELSE last.entities

WebScanCall ==
    \/ task.strategy = "_execute_web_scan"
    \/ last.entry = "execute_command" /\ last.intent = "web_scanning"

Elements(seq) == { seq[i] : i \in 1..Len(seq) }

\* C25: in a web scan the target given to every tool starts with http:// or
\* https:// (http:// is put in front of a target without a scheme, a target
\* with a scheme is passed unchanged), and the gobuster step has completed
\* before the nikto step is started.
C25_WebScanSchemeAndOrder ==
    WebScanCall
    => \A i \in 1..Len(procs) :
          /\ procs[i].tool \in {"gobuster", "nikto"}
          /\ HasScheme(procs[i].target)
          /\ procs[i].target \in Elements(procs[i].command)
          /\ procs[i].target =
                IF HasScheme(_extract_target(WebScanEntities))
                THEN _extract_target(WebScanEntities)
                ELSE HttpPrefix \o _extract_target(WebScanEntities)
          /\ HasScheme(_extract_target(WebScanEntities))
             \/ _extract_target(WebScanEntities) \notin Elements(procs[i].command)
          /\ procs[i].tool = "nikto"
               => \A j \in 1..Len(procs) :
                     procs[j].tool = "gobuster" => j < i /\ procs[j].status = "exited"

C25_Witness ==
    /\ task.strategy = "_execute_web_scan"
    /\ ~HasScheme(_extract_target(task.entities))
    /\ Len(procs) = 2
    /\ procs[1].tool = "gobuster" /\ procs[1].status = "exited"
    /\ procs[2].tool = "nikto" /\ procs[2].status = "running"
    /\ StartsWith(procs[2].target, HttpPrefix)

\* C26: a session is in the session table once an authentication has
\* succeeded, and it is removed from the table when it expires or the user
\* logs out: the table holds no session whose expires_at has passed.
C26_ExpiredSessionsRemoved ==
    /\ auth.made /\ auth.success => auth.session_id \in DOMAIN active_sessions
    /\ \A id \in DOMAIN active_sessions : active_sessions[id].expires_at > now

\* C27: after any sequence of add_authorized_target and is_target_allowed
\* calls, a target inside a blocked range is never allowed, whether it is on
\* the authorized list or matches a safe-practice pattern.
C27_BlockedNeverAllowed ==
    (target_decision.made /\ target_decision.target \in InBlockedRange)
    => ~target_decision.allowed

Locked(username) ==
    username \in DOMAIN failed_attempts /\ failed_attempts[username] >= max_failed_attempts

Raised(lg, event) == \E i \in 1..Len(lg) : lg[i].event = event

\* C29: the authorization checks fail closed: an is_command_allowed or
\* is_target_allowed call that hits an exception returns false, never true,
\* and leaves the authorized-target set as it was.
C29_FailClosed ==
    [][/\ Raised(log', "target_check_error")
            => /\ last'.entry = "is_target_allowed"
               /\ ~last'.response.success
               /\ target_decision'.made /\ ~target_decision'.allowed
               /\ authorized_targets' = authorized_targets
       /\ Raised(log', "command_check_error")
            => /\ last'.entry = "is_command_allowed"
               /\ ~last'.response.success
               /\ decision'.made /\ ~decision'.allowed
               /\ authorized_targets' = authorized_targets]_vars

C29_Witness ==
    /\ Raised(log, "target_check_error")
    /\ last.entry = "is_target_allowed"
    /\ target_decision.target = TgtExample
    /\ target_decision.blocked = "ValueError"
    /\ ~target_decision.allowed
    /\ authorized_targets /= {}

\* C30: after any sequence of load_extension, unload_extension,
\* reload_extension and unload_all_extensions, loaded_extensions equals the
\* key set of the extensions table: a failed initialize() leaves the
\* extension in neither, a failed cleanup() leaves it in both.
C30_LoadedEqualsKeys ==
    [][/\ loaded_extensions' = extensions'
       /\ \A n \in ExtensionNames :
            /\ (ext_call' /= ext_call /\ ext_call'.op = "load_extension"
                /\ ext_call'.name = n /\ ~ext_call'.returned)
                  => n \notin extensions' /\ n \notin loaded_extensions'
            /\ (ext_call' /= ext_call /\ ext_call'.op = "unload_extension"
                /\ ext_call'.name = n /\ ~ext_call'.returned /\ n \in extensions)
                  => n \in extensions' /\ n \in loaded_extensions']_vars

C30_Witness ==
    /\ ext_call.op = "unload_extension"
    /\ ~ext_call.returned
    /\ ext_call.name \in extensions
    /\ ext_call.name \in loaded_extensions
    /\ Cardinality(extensions) = 1

Next ==
    \/ \E c \in Commands, u \in Users : process_command(c, u)
    \/ \E ir \in NlpResults, ai_ok \in BOOLEAN : process_intent(ir, ai_ok)
    \/ \E ir \in IntentResults, u \in Users : execute_command(ir, u)
    \/ \E q \in Commands, tg \in CliTargets : main(q, tg)
    \/ \E ok \in BOOLEAN : create_subprocess_exec(ok)
    \/ \E rc \in ReturnCodes, out \in Outputs : communicate(rc, out)
    \/ Tick

Spec == Init /\ [][Next]_vars

\* Requests interleaved with authenticate_user calls and the passing of time.
SessionNext ==
    \/ \E u \in AuthUsers, pw \in Passwords, ip \in ClientIps : authenticate_user(u, pw, ip)
    \/ Elapse
    \/ \E c \in SessionCommands, u \in Users : process_command(c, u)
    \/ \E ir \in SessionResults, ai_ok \in BOOLEAN : process_intent(ir, ai_ok)
    \/ \E ok \in BOOLEAN : create_subprocess_exec(ok)
    \/ \E rc \in ReturnCodes, out \in Outputs : communicate(rc, out)

SessionSpec == Init /\ [][SessionNext]_vars

\* Output file names generated by the strategies' calls while time passes.
FilenameNext ==
    \/ \E tool \in FileTools, tg \in FileTargets, u \in FileUsers, ms \in SubSecond :
          _generate_output_filename(tool, tg, u, ms)
    \/ Elapse

FilenameSpec == Init /\ [][FilenameNext]_vars

\* Targets being authorized and checked.
TargetNext ==
    \/ \E tg \in AuthorizeInputs, u \in Users : add_authorized_target(tg, u)
    \/ \E tg \in Targets, u \in Users : is_target_allowed_call(tg, u)
    \/ \E c \in {CmdNmap, CmdCatPasswd, NoneCommand}, u \in Users :
          is_command_allowed_call(c, u)

TargetSpec == Init /\ [][TargetNext]_vars

\* Extensions being loaded, unloaded and reloaded.
ExtensionNext ==
    \/ \E n \in ExtensionNames, o \in LoadOutcomes : load_extension(n, o)
    \/ \E n \in ExtensionNames, c \in CleanupOutcomes : unload_extension(n, c)
    \/ \E n \in ExtensionNames, f \in BOOLEAN, c \in CleanupOutcomes, o \in LoadOutcomes :
          reload_extension(n, f, c, o)
    \/ \E cs \in [ExtensionNames -> CleanupOutcomes] : unload_all_extensions(cs)

ExtensionSpec == Init /\ [][ExtensionNext]_vars
====
